---------------------------- MODULE Spec2Model ----------------------------
(***************************************************************************)
(* SpaceCaptionsExtractor of twspace-crawler: the pipeline that turns a    *)
(* line-oriented log of nested JSON envelopes into a plain-text            *)
(* transcript and then hands it to the AI summarizer.                      *)
(*                                                                         *)
(* One extractor object, the file system it works on, the logger and the   *)
(* summarizer are the state.  JavaScript runs every callback to            *)
(* completion, so each action is one synchronous stretch of code: the      *)
(* body of extract() up to its first await, one 'line' event, the 'close'  *)
(* event with the continuation it releases, the summarizer settling.       *)
(*                                                                         *)
(* The repository holds the class twice.  The two copies agree on the      *)
(* constructor's paths, extract() up to the end of the stream, the line    *)
(* handler and the three process* methods; they differ in what switches    *)
(* the summarizer on (Config's ai.summary.enabled in one, AI_ENABLED with  *)
(* an API key and an outputDir argument in the other).  aiConfig stands    *)
(* for that switch; both copies catch and log a failing summarizer.        *)
(***************************************************************************)
EXTENDS Integers, Sequences, FiniteSets, TLC

VARIABLES
  fs,         \* the file system: path -> sequence of lines, for existing files
  inpFile,    \* this.inpFile
  outFile,    \* this.outFile, as the constructor resolved it
  outArg,     \* the constructor's outFile argument: <<>> omitted, <<p>> given
  startedAt,  \* this.startedAt: <<>> omitted, <<n>> given
  aiConfig,   \* Config's ai.summary.enabled: <<>> not loaded yet, <<b>> loaded
  pc,         \* where the current extract() call is
  promise,    \* the promise extract() returned
  result,     \* what that promise settled with
  lineCount,  \* processFile's lineCount
  log,        \* the logger's events of the current run, in order
  ops,        \* file and collaborator operations of the current run, in order
  runs,       \* how many times extract() has been called
  origin,     \* the file system as it was when the current run started
  prev,       \* the outcome of the run before the current one, if any
  peer,       \* a second extractor object running in the same process, if any
  aiEnv       \* what the copy of the class that reads the environment found
              \* there besides AI_ENABLED: the API key, the outputDir argument

vars == <<fs, inpFile, outFile, outArg, startedAt, aiConfig, pc, promise,
          result, lineCount, log, ops, runs, origin, prev, peer, aiEnv>>

-----------------------------------------------------------------------------
(* Bounds of the model *)

\* longest input log
MaxLines == 3
\* most extract() calls on one object, in SpecRerun
MaxRuns == 2
\* longest path given to the constructor, in pieces, in SpecArgs
MaxPathLen == 2

-----------------------------------------------------------------------------
(* Optional values: undefined is <<>>, a present value v is <<v>> *)

None == <<>>
Some(v) == <<v>>

-----------------------------------------------------------------------------
(* Text.  A string that matters character by character is a tuple of       *)
(* one-character strings; a path is a tuple of path pieces, so that        *)
(* appending ".txt" is appending a piece and string equality is tuple      *)
(* equality.                                                               *)

RECURSIVE TrimStart(_)
TrimStart(s) ==
  IF s # <<>> /\ Head(s) = " " THEN TrimStart(Tail(s)) ELSE s

RECURSIVE TrimEnd(_)
TrimEnd(s) ==
  IF s # <<>> /\ s[Len(s)] = " " THEN TrimEnd(SubSeq(s, 1, Len(s) - 1)) ELSE s

\* String.prototype.trim
Trim(s) == TrimEnd(TrimStart(s))

\* the template literal `${p}.txt`
WithTxt(p) == Append(p, ".txt")

-----------------------------------------------------------------------------
(* The wire format.  A piece of text is a record whose field parses says   *)
(* whether JSON.parse accepts it; if it does, val is the value JSON.parse  *)
(* returns.  The three layers nest: a log line parses to a                 *)
(* ChatHistoryMessage, its payload to a ChatMessage, its body to a         *)
(* ChatMessageData.                                                        *)

\* text JSON.parse throws on
Garbage == [parses |-> FALSE]

\* JSON.stringify(v)
Json(v) == [parses |-> TRUE, val |-> v]

\* ChatMessageData payloads: final, final before the session start,
\* interim revision, final with an empty body, final with a blank body
HiData ==
  [final |-> TRUE, body |-> <<" ", "h", "i", " ">>, username |-> "alice",
   timestamp |-> 1050]

YoData ==
  [final |-> TRUE, body |-> <<"y", "o">>, username |-> "bob",
   timestamp |-> 900]

PartData ==
  [final |-> FALSE, body |-> <<"h">>, username |-> "alice",
   timestamp |-> 1040]

EmptyData ==
  [final |-> TRUE, body |-> <<>>, username |-> "alice", timestamp |-> 1060]

BlankData ==
  [final |-> TRUE, body |-> <<" ">>, username |-> "bob", timestamp |-> 1070]

ChatDatas == {HiData, YoData, PartData, EmptyData, BlankData}

\* a log line the crawler wrote for a chat message carrying data d
ChatLine(d) ==
  Json([kind |-> "CHAT", payload |-> Json([uuid |-> Some("u1"), body |-> Json(d)])])

\* a line that is not JSON at all
GarbageLine == Garbage

\* an envelope of another kind than CHAT
ControlLine == Json([kind |-> "CONTROL", payload |-> Garbage])

\* a CHAT envelope whose payload is not JSON
BadPayloadLine == Json([kind |-> "CHAT", payload |-> Garbage])

\* a CHAT envelope whose chat message has no uuid
NoUuidLine ==
  Json([kind |-> "CHAT", payload |-> Json([uuid |-> None, body |-> Json(HiData)])])

\* a CHAT envelope with a uuid whose body is not JSON
BadBodyLine ==
  Json([kind |-> "CHAT", payload |-> Json([uuid |-> Some("u1"), body |-> Garbage])])

LogLines ==
  {GarbageLine, ControlLine, BadPayloadLine, NoUuidLine, BadBodyLine}
    \cup {ChatLine(d) : d \in ChatDatas}

\* every log of at most n lines
Logs(n) == UNION {[1..k -> LogLines] : k \in 0..n}

-----------------------------------------------------------------------------
(* Line processing.  processLine, processChat and processChatData either   *)
(* return without effect, throw, or reach appendFileSync with a message;   *)
(* the operators return which.                                             *)

Skip == [res |-> "skip"]
Throw(why) == [res |-> "throw", reason |-> why]
Emit(m) == [res |-> "emit", msg |-> m]

\* mutant of Max: the clamp at zero left out
MaxSecond(a, b) == b

Max(a, b) == IF a >= b THEN a ELSE b

\* the time prefix: the argument handed to Util.getDisplayTime, if any
TimePrefix(obj, st) ==
  IF st # None /\ st[1] # 0
    THEN Some(Max(0, obj.timestamp - st[1]))
    ELSE None

\* `${time}${obj.username}: ${obj.body.trim()}\n`, a line JSON.parse rejects
FormatMsg(obj, st) ==
  [parses |-> FALSE, time |-> TimePrefix(obj, st), username |-> obj.username,
   body |-> Trim(obj.body)]

\* mutants of Filtered: && for ||, and the body test forgotten
FilteredBoth(obj) == ~obj.final /\ obj.body = <<>>

FilteredFinalOnly(obj) == ~obj.final

\* !obj.final || !obj.body
Filtered(obj) == ~obj.final \/ obj.body = <<>>

processChatData(payload, st) ==
  IF ~payload.parses THEN Throw("SyntaxError")
  ELSE IF Filtered(payload.val) THEN Skip
  ELSE Emit(FormatMsg(payload.val, st))

\* mutant of processChat: the uuid test left out
processChatAnyUuid(payload, st) ==
  IF ~payload.parses THEN Throw("SyntaxError")
  ELSE processChatData(payload.val.body, st)

processChat(payload, st) ==
  IF ~payload.parses THEN Throw("SyntaxError")
  ELSE IF payload.val.uuid = None THEN Skip
  ELSE processChatData(payload.val.body, st)

processLine(payload, st) ==
  IF ~payload.parses THEN Throw("SyntaxError")
  ELSE IF payload.val.kind # "CHAT" THEN Skip
  ELSE processChat(payload.val.payload, st)

-----------------------------------------------------------------------------
(* The file system *)

\* mutant of existsSync: the existence check left out
existsSyncAlways(f, p) == TRUE

existsSync(f, p) == p \in DOMAIN f

\* mutant of appendFileSync: the file rewritten with the new line alone
appendFileSyncOver(f, p, line) == (p :> <<line>>) @@ f

\* mutant of writeFileSync: the file opened without truncating it
writeFileSyncKeep(f, p) == IF p \in DOMAIN f THEN f ELSE (p :> <<>>) @@ f

\* fs.writeFileSync(p, ''): create or truncate
writeFileSync(f, p) == (p :> <<>>) @@ f

\* fs.appendFileSync(p, line): append, creating the file if need be
appendFileSync(f, p, line) ==
  IF p \in DOMAIN f THEN [f EXCEPT ![p] = Append(@, line)] ELSE (p :> <<line>>) @@ f

\* the content of a file, <<>> if there is none
Content(f, p) == IF p \in DOMAIN f THEN f[p] ELSE <<>>

-----------------------------------------------------------------------------
(* Log events and the record of operations *)

Event(lvl, what, n, why) ==
  [level |-> lvl, event |-> what, line |-> n, reason |-> why]

InputMissing == Event("warn", "input-not-found", 0, "")
Loading == Event("info", "loading", 0, "")
LineFailed(n, why) == Event("error", "line-failed", n, why)
Saved == Event("info", "saved", 0, "")
SummaryFailed == Event("error", "summary-failed", 0, "")
Fatal(why) == Event("error", "fatal", 0, why)

Op(what, p) == [op |-> what, path |-> p]

Unsettled == [value |-> <<>>, error |-> ""]

-----------------------------------------------------------------------------
(* The constructor *)

\* mutant of resolveOutFile: the comparison with inpFile left out
resolveOutFileUnchecked(inp, out) ==
  IF out # None /\ out[1] # <<>> THEN out[1] ELSE WithTxt(inp)

\* outFile === inpFile ? `${outFile}.txt` : (outFile || `${inpFile}.txt`)
resolveOutFile(inp, out) ==
  IF out = Some(inp) THEN WithTxt(out[1])
  ELSE IF out # None /\ out[1] # <<>> THEN out[1]
  ELSE WithTxt(inp)

EmptyFs == [p \in {} |-> <<>>]

\* a file system holding at most the file p, with the content given
FileAt(p, content) == IF content = None THEN EmptyFs ELSE (p :> content[1])

\* what an earlier run or another program left in the output file
StaleLine ==
  [parses |-> FALSE, time |-> None, username |-> "old", body |-> <<"x">>]

Stales == {None, Some(<<StaleLine>>)}

\* the state after new SpaceCaptionsExtractor(inp, out, st), for every choice
\* of the arguments and of the files on disk
InitWith(Inps, Outs, Starts, InputLogs) ==
  \E inp \in Inps, out \in Outs, st \in Starts,
     input \in {None} \cup {Some(l) : l \in InputLogs}, stale \in Stales :
    /\ inp = <<>> => input = None   \* the empty path names no file
    /\ inpFile = inp
    /\ outArg = out
    /\ outFile = resolveOutFile(inp, out)
    /\ startedAt = st
    /\ fs = FileAt(inp, input) @@ FileAt(resolveOutFile(inp, out), stale)
    /\ aiConfig = None
    /\ pc = "idle"
    /\ promise = "none"
    /\ result = Unsettled
    /\ lineCount = 0
    /\ log = <<>>
    /\ ops = <<>>
    /\ runs = 0
    /\ origin = EmptyFs
    /\ prev = None
    /\ peer = None
    /\ aiEnv = None

-----------------------------------------------------------------------------
(* extract(), up to its first await.  Oks is the set of outcomes the disk  *)
(* may give a write: TRUE it succeeds, FALSE it throws.                    *)

\* mutant of extractCatch: the error logged, reject(error) left out
extractCatchNoReject(err) ==
  [promise |-> "pending", error |-> "", log |-> <<Fatal(err)>>]

\* the catch of extract(): log the error and reject with it
extractCatch(err) ==
  [promise |-> "rejected", error |-> err, log |-> <<Fatal(err)>>]

Extract(Oks, maxRuns) ==
  /\ pc = "idle" \/ (pc = "done" /\ promise # "pending")
  /\ runs < maxRuns
  /\ runs' = runs + 1
  /\ origin' = fs
  /\ prev' = IF runs = 0 THEN None
             ELSE Some([promise |-> promise,
                        before |-> Content(origin, outFile),
                        exists |-> existsSync(fs, outFile),
                        content |-> Content(fs, outFile)])
  /\ lineCount' = 0
  /\ UNCHANGED <<inpFile, outFile, outArg, startedAt, aiConfig, peer, aiEnv>>
  /\ IF ~existsSync(fs, inpFile)
       THEN \* warn and return: neither resolve nor reject is called
            /\ log' = <<InputMissing>>
            /\ ops' = <<Op("exists", inpFile)>>
            /\ pc' = "done"
            /\ promise' = "pending"
            /\ result' = Unsettled
            /\ UNCHANGED fs
       ELSE \E ok \in Oks :
              IF ok
                THEN \* writeFileSync, then processFile opens the stream
                     /\ fs' = writeFileSync(fs, outFile)
                     /\ log' = <<Loading>>
                     /\ ops' = <<Op("exists", inpFile), Op("truncate", outFile),
                                 Op("open", inpFile)>>
                     /\ pc' = "streaming"
                     /\ promise' = "pending"
                     /\ result' = Unsettled
                ELSE \* writeFileSync throws
                     LET c == extractCatch("EIO")
                     IN /\ log' = c.log
                        /\ ops' = <<Op("exists", inpFile),
                                    Op("truncate-failed", outFile)>>
                        /\ pc' = "done"
                        /\ promise' = c.promise
                        /\ result' = [value |-> <<>>, error |-> c.error]
                        /\ UNCHANGED fs

\* mutant of lineCatch: no try/catch, the exception ends the stream
lineCatchRethrow(n, why) ==
  [log |-> log, pc |-> "done"]

\* the catch of the 'line' handler: log the line number and go on
\* mutant of lineCatch: the position counted from zero
lineCatchZeroBased(n, why) ==
  [log |-> Append(log, LineFailed(n - 1, why)), pc |-> pc]

lineCatch(n, why) ==
  [log |-> Append(log, LineFailed(n, why)), pc |-> pc]

(* One 'line' event of the readline interface *)
Line(Oks) ==
  /\ pc = "streaming"
  /\ lineCount < Len(Content(fs, inpFile))
  /\ LET n == lineCount + 1
         out == processLine(fs[inpFile][n], startedAt)
         read == Op("read", inpFile)
     IN /\ lineCount' = n
        /\ CASE out.res = "skip" ->
                  /\ ops' = Append(ops, read)
                  /\ UNCHANGED <<fs, log, pc>>
             [] out.res = "throw" ->
                  /\ ops' = Append(ops, read)
                  /\ log' = lineCatch(n, out.reason).log
                  /\ pc' = lineCatch(n, out.reason).pc
                  /\ UNCHANGED fs
             [] out.res = "emit" ->
                  \E ok \in Oks :
                    IF ok
                      THEN /\ fs' = appendFileSync(fs, outFile, out.msg)
                           /\ ops' = ops \o <<read, Op("append", outFile)>>
                           /\ UNCHANGED <<log, pc>>
                      ELSE \* appendFileSync throws inside the handler's try
                           /\ ops' = ops \o <<read, Op("append-failed", outFile)>>
                           /\ log' = lineCatch(n, "EIO").log
                           /\ pc' = lineCatch(n, "EIO").pc
                           /\ UNCHANGED fs
  /\ UNCHANGED <<inpFile, outFile, outArg, startedAt, aiConfig, promise,
                 result, runs, origin, prev, peer,
                 aiEnv>>

\* mutant of allLinesEmitted: processFile resolves without waiting for 'close'
allLinesEmittedAnytime(n, content) == TRUE

\* readline emits 'close' when the input has ended, after the 'line' event of
\* its last line
allLinesEmitted(n, content) == n >= Len(content)

(* The 'close' event: processFile resolves, extract() goes on to          *)
(* callAISummarizer, which reads the configuration                        *)
Close ==
  /\ pc = "streaming"
  /\ allLinesEmitted(lineCount, Content(fs, inpFile))
  /\ \E enabled \in (IF aiConfig = None THEN BOOLEAN ELSE {aiConfig[1]}) :
       /\ aiConfig' = Some(enabled)
       /\ log' = Append(log, Saved)
       /\ IF enabled
            THEN \* await summarizer.summarize(this.outFile)
                 /\ ops' = Append(ops, Op("summarize", outFile))
                 /\ pc' = "summarizing"
                 /\ UNCHANGED <<promise, result>>
            ELSE \* resolve(this.outFile)
                 /\ pc' = "done"
                 /\ promise' = "resolved"
                 /\ result' = [value |-> outFile, error |-> ""]
                 /\ UNCHANGED ops
  /\ UNCHANGED <<fs, inpFile, outFile, outArg, startedAt, lineCount, runs,
                 origin, prev, peer,
                 aiEnv>>

\* mutant of envGate: the summarizer called whatever the settings
envGateOpen(enabled, key, dir) == TRUE

\* this.enableAISummary && this.aiSummarizer && outputDir
envGate(enabled, key, dir) == enabled /\ key /\ dir

(* The 'close' event in the copy of the class under src/modules, which     *)
(* reads AI_ENABLED and AI_API_KEY from the environment and takes the      *)
(* summary's directory as extract()'s argument.  The environment does not  *)
(* change during a run, so it is read here, where it is used.              *)
CloseEnv ==
  /\ pc = "streaming"
  /\ allLinesEmitted(lineCount, Content(fs, inpFile))
  /\ \E enabled \in (IF aiConfig = None THEN BOOLEAN ELSE {aiConfig[1]}),
        key \in BOOLEAN, dir \in BOOLEAN :
       /\ aiConfig' = Some(enabled)
       /\ aiEnv' = Some([apiKey |-> key, outputDir |-> dir])
       /\ log' = Append(log, Saved)
       /\ IF envGate(enabled, key, dir)
            THEN \* await this.aiSummarizer.summarizeCaptions(this.outFile, outputDir)
                 /\ ops' = Append(ops, Op("summarize", outFile))
                 /\ pc' = "summarizing"
                 /\ UNCHANGED <<promise, result>>
            ELSE \* resolve(this.outFile)
                 /\ pc' = "done"
                 /\ promise' = "resolved"
                 /\ result' = [value |-> outFile, error |-> ""]
                 /\ UNCHANGED ops
  /\ UNCHANGED <<fs, inpFile, outFile, outArg, startedAt, lineCount, runs,
                 origin, prev, peer>>

\* mutant of summarizerSettled: no try/catch, extract()'s catch rejects
summarizerSettledUncaught(ok) ==
  IF ok
    THEN [promise |-> "resolved", value |-> outFile, error |-> "", log |-> log]
    ELSE [promise |-> "rejected", value |-> <<>>, error |-> "summary",
          log |-> Append(log, Fatal("summary"))]

\* callAISummarizer's try/catch around the await, then resolve(this.outFile)
summarizerSettled(ok) ==
  [promise |-> "resolved", value |-> outFile, error |-> "",
   log |-> IF ok THEN log ELSE Append(log, SummaryFailed)]

(* The summarizer's promise settles *)
Summarized(Oks) ==
  /\ pc = "summarizing"
  /\ \E ok \in Oks :
       LET c == summarizerSettled(ok)
       IN /\ log' = c.log
          /\ promise' = c.promise
          /\ result' = [value |-> c.value, error |-> c.error]
          /\ ops' = Append(ops, Op(IF ok THEN "summary-done" ELSE "summary-failed",
                                   outFile))
  /\ pc' = "done"
  /\ UNCHANGED <<fs, inpFile, outFile, outArg, startedAt, aiConfig, lineCount,
                 runs, origin, prev, peer,
                 aiEnv>>

(* The read stream emits 'error' (the file was removed or became           *)
(* unreadable after existsSync): processFile registers no 'error' handler  *)
(* and its promise has no reject, and readline emits 'close' on the        *)
(* input's 'end' only.  The error is an uncaught exception: it ends the    *)
(* process, or, where the process handles uncaught exceptions, the run     *)
(* stalls with its promise pending.                                        *)
StreamError ==
  /\ pc = "streaming"
  /\ pc' \in {"crashed", "stalled"}
  /\ ops' = Append(ops, Op("stream-error", inpFile))
  /\ UNCHANGED <<fs, inpFile, outFile, outArg, startedAt, aiConfig, promise,
                 result, lineCount, log, runs, origin, prev, peer,
                 aiEnv>>

-----------------------------------------------------------------------------
(* A second extractor object of the same class in the same process, on the *)
(* same disk: its fields are the record in peer, its steps the steps above *)
(* on that record.  Its writes are taken by the disk, and it was given no  *)
(* session start.                                                          *)

\* the second object after new SpaceCaptionsExtractor(inp); disk is the file
\* system at that time
NewPeer(inp, disk) ==
  [inpFile |-> inp, outFile |-> resolveOutFile(inp, None), pc |-> "idle",
   promise |-> "none", lineCount |-> 0, log |-> <<>>, ops |-> <<>>,
   disk |-> disk]

\* extract() up to the first await
PeerExtract ==
  /\ peer # None
  /\ peer[1].pc = "idle"
  /\ IF ~existsSync(fs, peer[1].inpFile)
       THEN /\ peer' = Some([peer[1] EXCEPT
                        !.pc = "done", !.promise = "pending",
                        !.log = <<InputMissing>>,
                        !.ops = <<Op("exists", peer[1].inpFile)>>])
            /\ UNCHANGED fs
       ELSE /\ fs' = writeFileSync(fs, peer[1].outFile)
            /\ peer' = Some([peer[1] EXCEPT
                        !.pc = "streaming", !.promise = "pending",
                        !.log = <<Loading>>,
                        !.ops = <<Op("exists", peer[1].inpFile),
                                  Op("truncate", peer[1].outFile),
                                  Op("open", peer[1].inpFile)>>])
  /\ UNCHANGED <<inpFile, outFile, outArg, startedAt, aiConfig, pc, promise,
                 result, lineCount, log, ops, runs, origin, prev, aiEnv>>

\* a 'line' event of the second object's stream
PeerLine ==
  /\ peer # None
  /\ peer[1].pc = "streaming"
  /\ peer[1].lineCount < Len(Content(fs, peer[1].inpFile))
  /\ LET n == peer[1].lineCount + 1
         out == processLine(fs[peer[1].inpFile][n], None)
         read == Op("read", peer[1].inpFile)
     IN CASE out.res = "skip" ->
               /\ peer' = Some([peer[1] EXCEPT
                           !.lineCount = n, !.ops = Append(@, read)])
               /\ UNCHANGED fs
          [] out.res = "throw" ->
               /\ peer' = Some([peer[1] EXCEPT
                           !.lineCount = n, !.ops = Append(@, read),
                           !.log = Append(@, LineFailed(n, out.reason))])
               /\ UNCHANGED fs
          [] out.res = "emit" ->
               /\ fs' = appendFileSync(fs, peer[1].outFile, out.msg)
               /\ peer' = Some([peer[1] EXCEPT
                           !.lineCount = n,
                           !.ops = @ \o <<read, Op("append", peer[1].outFile)>>])
  /\ UNCHANGED <<inpFile, outFile, outArg, startedAt, aiConfig, pc, promise,
                 result, lineCount, log, ops, runs, origin, prev, aiEnv>>

\* the 'close' event of the second object's stream
PeerClose ==
  /\ peer # None
  /\ peer[1].pc = "streaming"
  /\ allLinesEmitted(peer[1].lineCount, Content(fs, peer[1].inpFile))
  /\ \E enabled \in (IF aiConfig = None THEN BOOLEAN ELSE {aiConfig[1]}) :
       /\ aiConfig' = Some(enabled)
       /\ peer' = Some(IF enabled
                         THEN [peer[1] EXCEPT
                                 !.pc = "summarizing",
                                 !.log = Append(@, Saved),
                                 !.ops = Append(@, Op("summarize", peer[1].outFile))]
                         ELSE [peer[1] EXCEPT
                                 !.pc = "done", !.promise = "resolved",
                                 !.log = Append(@, Saved)])
  /\ UNCHANGED <<fs, inpFile, outFile, outArg, startedAt, pc, promise, result,
                 lineCount, log, ops, runs, origin, prev, aiEnv>>

\* the second object's summarizer settles
PeerSummarized ==
  /\ peer # None
  /\ peer[1].pc = "summarizing"
  /\ peer' = Some([peer[1] EXCEPT
                    !.pc = "done", !.promise = "resolved",
                    !.ops = Append(@, Op("summary-done", peer[1].outFile))])
  /\ UNCHANGED <<fs, inpFile, outFile, outArg, startedAt, aiConfig, pc, promise,
                 result, lineCount, log, ops, runs, origin, prev, aiEnv>>

-----------------------------------------------------------------------------
(* Specifications *)

\* one run over every log of up to MaxLines lines, the output path derived,
\* the disk and the summarizer free to fail
Init ==
  InitWith({<<"a">>}, {None}, {None, Some(1000)}, Logs(MaxLines))

Next ==
  \/ Extract(BOOLEAN, 1)
  \/ Line(BOOLEAN)
  \/ Close
  \/ Summarized(BOOLEAN)

Spec == Init /\ [][Next]_vars

\* extract() called again once the promise of the call before has settled,
\* the disk and the summarizer working
NextRerun ==
  \/ Extract({TRUE}, MaxRuns)
  \/ Line({TRUE})
  \/ Close
  \/ Summarized({TRUE})

SpecRerun == Init /\ [][NextRerun]_vars

\* one run in which the input stream may fail as well
NextStream ==
  \/ Next
  \/ StreamError

SpecStream == Init /\ [][NextStream]_vars

\* one run of either copy of the class
NextEnv ==
  \/ Next
  \/ CloseEnv

SpecEnv == Init /\ [][NextEnv]_vars

\* two objects over two different input files, both present, each with its
\* derived output path, their steps interleaved in every way
PairPaths == {<<"a">>, <<"b">>, <<"a", ".txt">>}

PairLogs ==
  {<<ChatLine(HiData)>>, <<ChatLine(YoData), GarbageLine, ChatLine(HiData)>>}

InitPair ==
  \E inp \in PairPaths, inp2 \in PairPaths, st \in {None, Some(1000)},
     input \in PairLogs, input2 \in PairLogs :
    /\ inp # inp2
    /\ inpFile = inp
    /\ outArg = None
    /\ outFile = resolveOutFile(inp, None)
    /\ startedAt = st
    /\ fs = (inp :> input) @@ (inp2 :> input2)
    /\ peer = Some(NewPeer(inp2, (inp :> input) @@ (inp2 :> input2)))
    /\ aiConfig = None
    /\ pc = "idle"
    /\ promise = "none"
    /\ result = Unsettled
    /\ lineCount = 0
    /\ log = <<>>
    /\ ops = <<>>
    /\ runs = 0
    /\ origin = EmptyFs
    /\ prev = None
    /\ aiEnv = None

NextPair ==
  \/ Extract({TRUE}, 1)
  \/ Line({TRUE})
  \/ Close
  \/ Summarized({TRUE})
  \/ PeerExtract
  \/ PeerLine
  \/ PeerClose
  \/ PeerSummarized

SpecPair == InitPair /\ [][NextPair]_vars

\* one run for every choice of the constructor's arguments, over three logs
PathPieces == {"a", "b", ".txt"}

Paths == UNION {[1..k -> PathPieces] : k \in 0..MaxPathLen}

Starts == {None, Some(0), Some(1000)}

ArgLogs ==
  {<<>>, <<ChatLine(HiData)>>, <<ChatLine(YoData), GarbageLine, ChatLine(HiData)>>}

InitArgs ==
  InitWith(Paths, {None} \cup {Some(p) : p \in Paths}, Starts, ArgLogs)

SpecArgs == InitArgs /\ [][Next]_vars

-----------------------------------------------------------------------------
(* Vocabulary of the claims *)

\* the input log as the current run found it, and the output file now
Input == Content(origin, inpFile)
Output == Content(fs, outFile)

InputExisted == runs >= 1 /\ inpFile \in DOMAIN origin
InputMissed == runs >= 1 /\ inpFile \notin DOMAIN origin

\* the places in ops of the operations called what
OpIndexes(what) == {i \in DOMAIN ops : ops[i].op = what}

Logged(e) == \E i \in DOMAIN log : log[i] = e

\* the stream over the input was opened in this run
Opened == OpIndexes("open") # {}

\* a write to the disk failed in this run
WriteFailed == OpIndexes("truncate-failed") \cup OpIndexes("append-failed") # {}

\* the line decodes to a CHAT envelope with a uuid whose chat payload has
\* final = true and a non-empty body
IsFinalChat(line) ==
  /\ line.parses
  /\ line.val.kind = "CHAT"
  /\ line.val.payload.parses
  /\ line.val.payload.val.uuid # None
  /\ line.val.payload.val.body.parses
  /\ line.val.payload.val.body.val.final
  /\ line.val.payload.val.body.val.body # <<>>

\* the line fails to decode at one of the three layers the code reaches
Malformed(line) ==
  \/ ~line.parses
  \/ /\ line.val.kind = "CHAT"
     /\ \/ ~line.val.payload.parses
        \/ /\ line.val.payload.val.uuid # None
           /\ ~line.val.payload.val.body.parses

DataOf(line) == line.val.payload.val.body.val

\* b is text t without the blanks at its two ends
IsTrimOf(b, t) ==
  \E i \in 1..(Len(t) + 1), j \in 0..Len(t) :
    /\ b = SubSeq(t, i, j)
    /\ \A k \in 1..Len(t) : (k < i \/ k > j) => t[k] = " "
    /\ b # <<>> => (b[1] # " " /\ b[Len(b)] # " ")

\* msg is the transcript line of the chat payload of line
Renders(msg, line) ==
  /\ msg.username = DataOf(line).username
  /\ IsTrimOf(msg.body, DataOf(line).body)

\* for each operation called what in o, in order, the number of the input
\* line whose 'line' event made it
RECURSIVE Sources(_, _, _)
Sources(o, reads, what) ==
  IF o = <<>> THEN <<>>
  ELSE IF Head(o).op = "read" THEN Sources(Tail(o), reads + 1, what)
  ELSE IF Head(o).op = what THEN <<reads>> \o Sources(Tail(o), reads, what)
  ELSE Sources(Tail(o), reads, what)

AppendSources == Sources(ops, 0, "append")

\* the input lines whose append the disk refused
FailedLines ==
  LET src == Sources(ops, 0, "append-failed")
  IN {src[k] : k \in 1..Len(src)}

-----------------------------------------------------------------------------
(* C1: once extract() has resolved (the disk having taken every write),    *)
(* the output file holds, in arrival order, one transcript line for each   *)
(* input line that decodes to a CHAT envelope with a uuid whose payload    *)
(* is final with a non-empty body: nothing lost, reordered or merged.      *)
C1_TranscriptIsFinalChatsInOrder ==
  (InputExisted /\ promise = "resolved" /\ ~WriteFailed) =>
    LET want == SelectSeq(Input, IsFinalChat)
    IN /\ existsSync(fs, outFile)
       /\ Len(Output) = Len(want)
       /\ \A k \in 1..Len(want) : Renders(Output[k], want[k])

\* two final payloads of one message around an interim one: two equal lines
C1_Witness ==
  /\ promise = "resolved"
  /\ Input = <<ChatLine(HiData), ChatLine(PartData), ChatLine(HiData)>>
  /\ Len(Output) = 2
  /\ Output[1] = Output[2]

(* C2: in every state of a run, each line of the output file was appended  *)
(* for exactly one input line, a different one each, whose chat payload is *)
(* final with a non-empty body; a non-final or empty-body payload never    *)
(* appends.                                                                *)
C2_EveryLineFromOneFinalPayload ==
  (pc \in {"streaming", "summarizing"} \/ (pc = "done" /\ promise = "resolved")) =>
    LET src == AppendSources
    IN /\ Len(Output) = Len(src)
       /\ \A k \in 1..Len(src) :
            /\ src[k] \in 1..lineCount
            /\ IsFinalChat(Input[src[k]])
            /\ Renders(Output[k], Input[src[k]])
            /\ k > 1 => src[k - 1] < src[k]

\* an interim and an empty-body payload passed by, one final payload appended
C2_Witness ==
  /\ pc = "streaming"
  /\ lineCount = 3
  /\ Input = <<ChatLine(PartData), ChatLine(EmptyData), ChatLine(HiData)>>
  /\ Len(Output) = 1

(* C3: malformed lines do not stop a run: once the stream has closed,      *)
(* every input line has been handled, every final chat line whose append   *)
(* the disk took has its transcript line, whatever came before it, and     *)
(* extract() resolves with the output path.                                *)
C3_MalformedLinesAreSkipped ==
  (Opened /\ pc \in {"summarizing", "done"}) =>
    LET src == AppendSources
        refused == FailedLines
    IN /\ lineCount = Len(Input)
       /\ pc = "done" => (promise = "resolved" /\ result.value = outFile)
       /\ \A i \in 1..Len(Input) :
            /\ Malformed(Input[i]) => Logged(LineFailed(i, "SyntaxError"))
            /\ (IsFinalChat(Input[i]) /\ i \notin refused)
                 => \E k \in 1..Len(Output) :
                      src[k] = i /\ Renders(Output[k], Input[i])

\* a malformed line between two final chat lines, both in the transcript
C3_Witness ==
  /\ pc = "done"
  /\ promise = "resolved"
  /\ Len(Input) = 3
  /\ IsFinalChat(Input[1])
  /\ Malformed(Input[2])
  /\ IsFinalChat(Input[3])
  /\ Len(Output) = 2

(* C4: when the input file does not exist, extract() has resolved by the   *)
(* time it is done.                                                        *)
C4_MissingInputResolves ==
  (InputMissed /\ pc = "done") => promise = "resolved"

(* C5: when the input file does not exist, the run changes no file, reads  *)
(* no line, never calls the summarizer and logs one warning, nothing else. *)
C5_MissingInputTouchesNothing ==
  InputMissed =>
    /\ pc = "done"
    /\ fs = origin
    /\ lineCount = 0
    /\ ops = <<Op("exists", inpFile)>>
    /\ log = <<InputMissing>>

\* no input, and an output file an earlier run left, still there
C5_Witness ==
  /\ InputMissed
  /\ pc = "done"
  /\ outFile \in DOMAIN fs
  /\ fs[outFile] = <<StaleLine>>

(* C6: a run whose input file exists truncates the output file exactly     *)
(* once (the disk taking the truncation or refusing it), before the first  *)
(* line is read and before every append; once truncated, the file holds    *)
(* the appends of this run and nothing else.                               *)
C6_TruncatedOnceBeforeAnyLine ==
  LET truncs == OpIndexes("truncate") \cup OpIndexes("truncate-failed")
  IN /\ InputExisted =>
          /\ Cardinality(truncs) = 1
          /\ \A t \in truncs :
               /\ ops[t].path = outFile
               /\ \A i \in OpIndexes("read") \cup OpIndexes("append")
                         \cup OpIndexes("append-failed") : t < i
     /\ OpIndexes("truncate") # {} =>
          /\ outFile \in DOMAIN fs
          /\ Len(Output) = Cardinality(OpIndexes("append"))

\* stale content before the run, one line appended after the truncation
C6_Witness ==
  /\ pc = "streaming"
  /\ Content(origin, outFile) = <<StaleLine>>
  /\ lineCount = 2
  /\ Len(Output) = 1

(* C7: a second extract() over the same input, output path and session     *)
(* start leaves the output file as the first one left it, whatever the     *)
(* file held before the first.                                             *)
C7_RerunIsIdempotent ==
  (runs >= 2 /\ pc = "done" /\ promise = "resolved" /\ prev # None
     /\ prev[1].promise = "resolved") =>
    /\ outFile \in DOMAIN fs
    /\ prev[1].exists
    /\ Output = prev[1].content

\* two runs done, stale content before the first, two lines after each
C7_Witness ==
  /\ runs = 2
  /\ pc = "done"
  /\ promise = "resolved"
  /\ prev # None
  /\ prev[1].before = <<StaleLine>>
  /\ Len(Output) = 2
  /\ Input = origin[inpFile]

(* C8: whatever paths the constructor is given, the resolved output path   *)
(* differs from the input path, it is the input path with .txt appended    *)
(* when no output path is given, and the run neither truncates nor appends *)
(* to the input file, which stays as it was.                               *)
C8_OutputNeverTheInput ==
  /\ outFile # inpFile
  /\ (outArg = None \/ outArg = Some(<<>>)) => outFile = inpFile \o <<".txt">>
  /\ \A i \in OpIndexes("truncate") \cup OpIndexes("append") : ops[i].path # inpFile
  /\ runs >= 1 =>
       /\ inpFile \in DOMAIN fs <=> inpFile \in DOMAIN origin
       /\ Content(fs, inpFile) = Content(origin, inpFile)

\* the output path given equal to the input path, and a run completed
C8_Witness ==
  /\ outArg = Some(inpFile)
  /\ promise = "resolved"
  /\ Len(Input) = 3
  /\ Len(Output) = 2

(* C9: when the summarizer fails, the failure is logged, extract() resolves *)
(* with the output path, and the transcript holds what the run appended:   *)
(* every expected line, if the disk took every write.                      *)
C9_SummaryFailureIsNotFatal ==
  OpIndexes("summary-failed") # {} =>
    /\ Logged(SummaryFailed)
    /\ pc = "done"
    /\ promise = "resolved"
    /\ result = [value |-> outFile, error |-> ""]
    /\ Len(Output) = Len(AppendSources)
    /\ ~WriteFailed => Len(Output) = Len(SelectSeq(Input, IsFinalChat))

\* the summarizer failed after a transcript of two lines was written
C9_Witness ==
  /\ OpIndexes("summary-failed") # {}
  /\ aiConfig = Some(TRUE)
  /\ promise = "resolved"
  /\ Len(Output) = 2

(* C10: when truncating the output file fails, extract() rejects with that *)
(* error; no line is read, nothing is appended, no file changes and the    *)
(* summarizer is not called.                                               *)
C10_TruncateFailureRejects ==
  OpIndexes("truncate-failed") # {} =>
    /\ pc = "done"
    /\ promise = "rejected"
    /\ result = [value |-> <<>>, error |-> "EIO"]
    /\ Logged(Fatal("EIO"))
    /\ lineCount = 0
    /\ fs = origin
    /\ ops = <<Op("exists", inpFile), Op("truncate-failed", outFile)>>

\* the truncation failed over a log that holds a final chat line
C10_Witness ==
  /\ OpIndexes("truncate-failed") # {}
  /\ promise = "rejected"
  /\ Len(Input) >= 1
  /\ IsFinalChat(Input[1])

(* C11: when an append to the output file fails while streaming, the run  *)
(* is over with extract() rejected.                                        *)
C11_AppendFailureRejects ==
  (OpIndexes("append-failed") # {} /\ pc = "done") => promise = "rejected"

(* C12: when the input stream fails after the existence check, extract()   *)
(* has rejected by the time the run can go no further.                     *)
C12_StreamFailureRejects ==
  OpIndexes("stream-error") # {} => promise = "rejected"

\* the line decodes to an envelope of another kind than CHAT, or to a CHAT
\* envelope whose chat message decodes and has no uuid
Ignored(line) ==
  /\ line.parses
  /\ \/ line.val.kind # "CHAT"
     \/ /\ line.val.payload.parses
        /\ line.val.payload.val.uuid = None

\* the places in log of the error events about input line i
LineErrors(i) ==
  {k \in DOMAIN log : log[k].event = "line-failed" /\ log[k].line = i}

(* C13: an input line whose envelope is of another kind than CHAT, or is a *)
(* CHAT envelope without a uuid, appends no transcript line and logs no    *)
(* error event.                                                            *)
C13_IgnoredLinesLeaveNoTrace ==
  Opened =>
    LET src == AppendSources
        refused == FailedLines
    IN \A i \in 1..lineCount :
         Ignored(Input[i]) =>
           /\ \A k \in 1..Len(src) : src[k] # i
           /\ i \notin refused
           /\ LineErrors(i) = {}

\* a control line and a chat line without uuid, and nothing written or logged
\* about them in a finished run
C13_Witness ==
  /\ promise = "resolved"
  /\ Input = <<ControlLine, NoUuidLine>>
  /\ lineCount = 2
  /\ Output = <<>>
  /\ log = <<Loading, Saved>>

\* every line now in the output file was appended by the current run
OwnOutput == Opened /\ OpIndexes("truncate") # {}

(* C14: when a session start was supplied, every transcript line of the    *)
(* run carries the elapsed-time prefix; when none was supplied, no line    *)
(* carries one.                                                            *)
C14_PrefixIffStartSupplied ==
  OwnOutput =>
    \A k \in 1..Len(Output) : (Output[k].time # None) <=> (startedAt # None)

(* C15: the elapsed time of a transcript line that carries a prefix is the *)
(* payload's timestamp less the session start where that is positive and   *)
(* zero otherwise, so never negative: a start of 1000 and a timestamp of   *)
(* 900 give 0.                                                             *)
C15_ElapsedIsClampedDifference ==
  OwnOutput =>
    LET src == AppendSources
    IN \A k \in 1..Len(Output) :
         LET ts == DataOf(Input[src[k]]).timestamp
             diff == ts - startedAt[1]
         IN /\ startedAt = Some(1000) => Output[k].time # None
            /\ Output[k].time # None =>
                 /\ Output[k].time[1] = (IF diff > 0 THEN diff ELSE 0)
                 /\ Output[k].time[1] >= 0
                 /\ (startedAt[1] = 1000 /\ ts = 900) => Output[k].time[1] = 0

\* the line of a message stamped 900 in a session started at 1000 shows 0,
\* the line of one stamped 1050 shows 50
C15_Witness ==
  /\ promise = "resolved"
  /\ startedAt = Some(1000)
  /\ Input = <<ChatLine(YoData), ChatLine(HiData)>>
  /\ Len(Output) = 2
  /\ Output[1].time = Some(0)
  /\ Output[2].time = Some(50)

\* the 'close' event of the stream has been handled
Closed == Opened /\ pc \in {"summarizing", "done"}

\* every input line has had its 'line' event, and every final chat line whose
\* append the disk took is in the output file
Drained ==
  LET src == AppendSources
      refused == FailedLines
  IN /\ lineCount = Len(Input)
     /\ Len(src) = Len(Output)
     /\ \A i \in 1..Len(Input) :
          (IsFinalChat(Input[i]) /\ i \notin refused)
            => \E k \in 1..Len(Output) :
                 src[k] = i /\ Renders(Output[k], Input[i])

(* C16: the close of the stream is a barrier: when it is handled every     *)
(* input line has been processed and its transcript line appended, and     *)
(* from then on (the summarizer started, extract() resolved) no line is    *)
(* processed, nothing is appended and no file changes.                     *)
C16_DrainIsBarrier ==
  [][/\ Closed' => Drained'
     /\ Closed => /\ fs' = fs
                  /\ lineCount' = lineCount
                  /\ OpIndexes("append")' = OpIndexes("append")
                  /\ OpIndexes("read")' = OpIndexes("read")]_vars

\* the summarizer has settled after two appends, and the summarize call is
\* later than both
C16_Witness ==
  /\ promise = "resolved"
  /\ Len(Output) = 2
  /\ Cardinality(OpIndexes("append")) = 2
  /\ OpIndexes("summary-done") # {}
  /\ \A i \in OpIndexes("append"), j \in OpIndexes("summarize") : i < j

\* the summarizer was called once, with the output file, or never
SummarizerCalls(n) ==
  /\ Cardinality(OpIndexes("summarize")) = n
  /\ \A i \in OpIndexes("summarize") : ops[i].path = outFile

(* C17 as stated: once streaming has completed, the summarizer has been    *)
(* called exactly once with the output file if summarization is enabled    *)
(* and the output file exists, and not at all if it is disabled.           *)
C17_SummarizedOnceIffEnabled ==
  Closed =>
    /\ (aiConfig = Some(TRUE) /\ existsSync(fs, outFile)) => SummarizerCalls(1)
    /\ aiConfig = Some(FALSE) => SummarizerCalls(0)

\* the copy that reads the environment has what it needs besides the switch
EnvReady == aiEnv = None \/ (aiEnv[1].apiKey /\ aiEnv[1].outputDir)

(* C17: once streaming has completed, the summarizer has been called       *)
(* exactly once with the output file if summarization is enabled, the      *)
(* output file exists and, in the copy that reads the environment, an API  *)
(* key is set and extract() was given an output directory; it has not been *)
(* called at all if summarization is disabled or one of those two is       *)
(* missing.  It is never called before the stream has closed.              *)
C17_SummarizedOnceIffReady ==
  /\ Closed =>
       /\ (aiConfig = Some(TRUE) /\ existsSync(fs, outFile) /\ EnvReady)
            => SummarizerCalls(1)
       /\ (aiConfig = Some(FALSE) \/ ~EnvReady) => SummarizerCalls(0)
  /\ ~Closed => SummarizerCalls(0)

\* the copy that reads the environment, switched on with key and directory,
\* has called the summarizer once and resolved
C17_Witness ==
  /\ promise = "resolved"
  /\ aiConfig = Some(TRUE)
  /\ aiEnv = Some([apiKey |-> TRUE, outputDir |-> TRUE])
  /\ SummarizerCalls(1)
  /\ Len(Output) = 1

\* why input line i fails, if it does: it does not decode, or the disk
\* refused its append
FailureOf(i, refused) ==
  IF Malformed(Input[i]) THEN Some("SyntaxError")
  ELSE IF i \in refused THEN Some("EIO")
  ELSE None

(* C18: each processed input line that fails to decode or to be processed  *)
(* has exactly one error event in the log, carrying the line's position    *)
(* counted from 1 over all lines and the reason, and has appended nothing; *)
(* every other processed line has no error event.                          *)
C18_OneErrorEventPerFailedLine ==
  Opened =>
    LET src == AppendSources
        refused == FailedLines
    IN /\ \A i \in 1..lineCount :
            LET why == FailureOf(i, refused)
            IN IF why # None
                 THEN /\ Cardinality(LineErrors(i)) = 1
                      /\ \A k \in LineErrors(i) : log[k] = LineFailed(i, why[1])
                      /\ \A k \in 1..Len(src) : src[k] # i
                 ELSE LineErrors(i) = {}
       /\ \A k \in DOMAIN log :
            log[k].event = "line-failed" => log[k].line \in 1..lineCount

\* a filtered line, a line that is not JSON and a line whose append the disk
\* refused: events for lines 2 and 3 only, nothing in the output
C18_Witness ==
  /\ promise = "resolved"
  /\ Input = <<ControlLine, GarbageLine, ChatLine(HiData)>>
  /\ log = <<Loading, LineFailed(2, "SyntaxError"), LineFailed(3, "EIO"), Saved>>
  /\ Output = <<>>

\* s is a prefix of t
IsPrefix(s, t) == Len(s) <= Len(t) /\ SubSeq(t, 1, Len(s)) = s

(* C19: once a run has truncated the output file, every step of the run    *)
(* leaves the file's earlier content as a prefix of its new content, and   *)
(* the run never reads, opens for reading or probes the output file.       *)
C19_OutputAppendOnly ==
  [][/\ OpIndexes("truncate") # {}
          => /\ existsSync(fs', outFile)
             /\ IsPrefix(Output, Output')
     /\ \A i \in DOMAIN ops' :
          ops'[i].op \in {"read", "open", "exists"} => ops'[i].path # outFile]_vars

\* two lines appended one after the other to a file that held a stale line
C19_Witness ==
  /\ existsSync(origin, outFile)
  /\ Content(origin, outFile) = <<StaleLine>>
  /\ Len(Output) = 2
  /\ Output[1] # Output[2]
  /\ Cardinality(OpIndexes("append")) = 2

\* the paths the operations in o wrote to, and all the paths they named
WrittenBy(o) == {o[i].path : i \in {j \in DOMAIN o : o[j].op \in {"truncate", "append"}}}
TouchedBy(o) ==
  {o[i].path : i \in {j \in DOMAIN o : o[j].op \in {"exists", "open", "read", "truncate", "append"}}}

\* the transcript a run over the lines given leaves when nothing else runs
RECURSIVE Alone(_, _)
Alone(lines, st) ==
  IF lines = <<>> THEN <<>>
  ELSE LET out == processLine(Head(lines), st)
       IN (IF out.res = "emit" THEN <<out.msg>> ELSE <<>>) \o Alone(Tail(lines), st)

\* neither object wrote a file the other named, and each finished transcript
\* is the one its input gives alone
RunsIndependent ==
  /\ WrittenBy(ops) \cap TouchedBy(peer[1].ops) = {}
  /\ WrittenBy(peer[1].ops) \cap TouchedBy(ops) = {}
  /\ promise = "resolved"
       => Output = Alone(peer[1].disk[inpFile], startedAt)
  /\ peer[1].promise = "resolved"
       => Content(fs, peer[1].outFile) = Alone(peer[1].disk[peer[1].inpFile], None)

(* C20: two runs executing concurrently over different input paths, each   *)
(* with its derived output path, are independent under every interleaving: *)
(* no file one run truncates or appends to is read, truncated or appended  *)
(* to by the other, and each run's transcript is the one it produces alone.*)
C20_ConcurrentRunsIndependent ==
  (peer # None /\ inpFile # peer[1].inpFile) => RunsIndependent

\* the same, for two runs of which neither reads the file the other writes;
\* this one holds
RunsIndependentUnlessChained ==
  (peer # None /\ inpFile # peer[1].outFile /\ peer[1].inpFile # outFile)
    => RunsIndependent

=============================================================================
